---- MODULE Spec2Model ----
(***************************************************************************)
(* Model of notebooks/xskillscore/core/deterministic.py: the dimension     *)
(* normalizer, the weight preprocessor and the five metric functions       *)
(* (pearson_r, pearson_r_p_value, rmse, mse, mae).                         *)
(*                                                                         *)
(* A labeled array is a record                                             *)
(*   isNone : TRUE for Python's None (no array)                            *)
(*   dims   : the sequence of dimension names                              *)
(*   sizes  : dimension name -> size             (xarray's .sizes)         *)
(*   index  : stacked dimension name -> sequence of labels (a MultiIndex); *)
(*            dimensions without coordinates have no entry                 *)
(*   val    : position (dimension name -> 1..size) -> element              *)
(* A dimension name is a sequence of one-character strings, so that the    *)
(* substring test and the underscore join of Python strings can be         *)
(* computed.  The elements of a and b are opaque tokens that name the      *)
(* array and the original position they come from; the elements of the    *)
(* weights are integers on input and floats (Quot) after normalization.    *)
(***************************************************************************)
EXTENDS Integers, Sequences, FiniteSets, TLC

\* ------------------------------------------------------------------ bounds
\* largest size of a dimension of an input array
MaxSize == 2
\* largest number of elements of an input array
MaxElems == 4
\* weights entries are drawn from -MaxW .. MaxW
MaxW == 2

\* ------------------------------------------------------------ Python values
\* dimension names "x", "xy", "y" as character sequences, in the order in
\* which the input arrays carry them
NameOrder == << <<"x">>, <<"x", "y">>, <<"y">> >>
Names == {NameOrder[i] : i \in 1..Len(NameOrder)}

SeqRange(s) == {s[i] : i \in 1..Len(s)}

\* a Python str and a Python list of str, told apart as isinstance does
PyStr(s) == [isStr |-> TRUE, s |-> s, l |-> <<>>]
PyList(l) == [isStr |-> FALSE, s |-> <<>>, l |-> l]

\* Python's range(start, stop, step) as a sequence, step # 0
PyRange(start, stop, step) ==
  LET n == IF step > 0
           THEN (IF stop > start THEN (stop - start + step - 1) \div step ELSE 0)
           ELSE (IF start > stop THEN (start - stop - step - 1) \div (-step) ELSE 0)
  IN [i \in 1..n |-> start + (i - 1) * step]

\* Python's `sub in s` on two str: sub occurs in s as a contiguous substring
IsSubstring(sub, s) ==
  \E k \in 0..(Len(s) - Len(sub)) : \A j \in 1..Len(sub) : s[k + j] = sub[j]

\* Python's `i in c` for c a str (substring) or a list (membership)
PyIn(i, c) == IF c.isStr THEN IsSubstring(i, c.s) ELSE i \in SeqRange(c.l)

\* Python's '_'.join(l)
RECURSIVE JoinUnderscore(_)
JoinUnderscore(l) ==
  IF Len(l) = 0 THEN <<>>
  ELSE IF Len(l) = 1 THEN l[1]
  ELSE l[1] \o <<"_">> \o JoinUnderscore(Tail(l))

\* ------------------------------------------------------------ float values
\* a float: a reduced fraction n/d with d > 0, or nan, +inf, -inf
Num(n) == [k |-> "num", n |-> n, d |-> 1]
NaN == [k |-> "nan", n |-> 0, d |-> 0]
PInf == [k |-> "pinf", n |-> 0, d |-> 0]
NInf == [k |-> "ninf", n |-> 0, d |-> 0]

Abs(n) == IF n < 0 THEN -n ELSE n

RECURSIVE GCD(_, _)
GCD(m, n) == IF n = 0 THEN m ELSE GCD(n, m % n)

\* true division w / m of two integers, as numpy computes it in floats
Quot(w, m) ==
  IF m = 0
  THEN (IF w = 0 THEN NaN ELSE IF w > 0 THEN PInf ELSE NInf)
  ELSE LET g == GCD(Abs(w), Abs(m))
           sgn == IF m < 0 THEN -1 ELSE 1
       IN [k |-> "num", n |-> (sgn * w) \div g, d |-> Abs(m) \div g]

\* u < v on floats; every comparison with nan is False
FloatLess(u, v) ==
  CASE u.k = "nan" \/ v.k = "nan" -> FALSE
    [] u.k = "ninf" -> v.k # "ninf"
    [] u.k = "pinf" -> FALSE
    [] v.k = "ninf" -> FALSE
    [] v.k = "pinf" -> TRUE
    [] OTHER -> u.n * v.d < v.n * u.d

\* the least of a set of floats, NaN skipped (skipna); NaN when all are NaN
FloatMin(S) ==
  LET T == {v \in S : v.k # "nan"}
  IN IF T = {} THEN NaN
     ELSE CHOOSE v \in T : \A u \in T : ~FloatLess(u, v)

\* the greatest of a non-empty set of integers
IntMax(S) == CHOOSE v \in S : \A u \in S : u <= v

\* ------------------------------------------------------- the array engine
\* Python's None where an array is optional
NoneArr == [isNone |-> TRUE, dims |-> <<>>, sizes |-> <<>>, index |-> <<>>, val |-> <<>>]

DimSet(arr) == SeqRange(arr.dims)

MaxOf(S) == IF S = {} THEN 0 ELSE CHOOSE v \in S : \A u \in S : u <= v

\* all positions of an array with the given dimensions and sizes
PositionsOf(D, sizes) ==
  {p \in [D -> 1..MaxOf({sizes[d] : d \in D})] : \A d \in D : p[d] <= sizes[d]}

Positions(arr) == PositionsOf(DimSet(arr), arr.sizes)

Values(arr) == {arr.val[p] : p \in Positions(arr)}

IndexOf(d, l) == CHOOSE i \in 1..Len(l) : l[i] = d

IsDistinct(l) == \A i, j \in 1..Len(l) : l[i] = l[j] => i = j

RECURSIVE Prod(_)
Prod(szs) == IF Len(szs) = 0 THEN 1 ELSE Head(szs) * Prod(Tail(szs))

\* the row-major stride of axis i in an array of shape szs (last axis fastest)
Stride(i, szs) == Prod(SubSeq(szs, i + 1, Len(szs)))

\* the per-axis positions (1-based) of the k-th element, k in 1..Prod(szs),
\* of the row-major (C order, Cartesian product) flattening of shape szs
Unflatten(k, szs) ==
  [i \in 1..Len(szs) |-> (((k - 1) \div Stride(i, szs)) % szs[i]) + 1]

\* the MultiIndex a stack builds: the Cartesian product of the default
\* (0-based range) labels of the stacked dimensions, first name slowest
ProductIndex(szs) ==
  [k \in 1..Prod(szs) |-> [i \in 1..Len(szs) |-> Unflatten(k, szs)[i] - 1]]

\* whether arr.stack(new_dim=dimlist) succeeds in the array engine
StackOk(arr, new_dim, dimlist) ==
  /\ SeqRange(dimlist) \subseteq DimSet(arr)
  /\ IsDistinct(dimlist)
  /\ new_dim \notin DimSet(arr)

\* arr.stack(new_dim=dimlist): the dimensions of dimlist are moved to the end
\* in the order of dimlist and flattened into one dimension new_dim
Stack(arr, new_dim, dimlist) ==
  LET L == SeqRange(dimlist)
      kept == SelectSeq(arr.dims, LAMBDA d : d \notin L)
      szs == [i \in 1..Len(dimlist) |-> arr.sizes[dimlist[i]]]
      newdims == kept \o <<new_dim>>
      newsizes == [d \in SeqRange(newdims) |->
                     IF d = new_dim THEN Prod(szs) ELSE arr.sizes[d]]
  IN [isNone |-> FALSE,
      dims |-> newdims,
      sizes |-> newsizes,
      index |-> [d \in ((DOMAIN arr.index) \ L) \cup {new_dim} |->
                   IF d = new_dim THEN ProductIndex(szs) ELSE arr.index[d]],
      val |-> [p \in PositionsOf(SeqRange(newdims), newsizes) |->
                 arr.val[[d \in DimSet(arr) |->
                            IF d \in L
                            THEN Unflatten(p[new_dim], szs)[IndexOf(d, dimlist)]
                            ELSE p[d]]]]]

\* dict(arr.isel({k: 0 for k in drop}).sizes): an integer indexer removes
\* its dimension, every other dimension keeps its size
IselSizes(arr, drop) == [d \in DimSet(arr) \ drop |-> arr.sizes[d]]

\* xr.ones_like(arr): ones with the dimensions, sizes and coordinates of arr
OnesLike(arr) ==
  [isNone |-> FALSE, dims |-> arr.dims, sizes |-> arr.sizes, index |-> arr.index,
   val |-> [p \in Positions(arr) |-> Num(1)]]

\* lexicographic order on label tuples of equal length
LexLess(u, v) ==
  \E i \in 1..Len(u) : u[i] < v[i] /\ \A j \in 1..(i - 1) : u[j] = v[j]

\* the sorted sequence of a finite set of label tuples
SortedSeq(S) ==
  [k \in 1..Cardinality(S) |->
     CHOOSE e \in S : Cardinality({f \in S : LexLess(f, e)}) = k - 1]

\* whether two arrays can be aligned along their shared dimensions: a
\* dimension without labels must have the same size in both
Alignable(x, y) ==
  \A d \in DimSet(x) \cap DimSet(y) :
    (d \in DOMAIN x.index /\ d \in DOMAIN y.index) \/ x.sizes[d] = y.sizes[d]

\* the labels of dimension d after align(x, y, join="outer")
OuterIndex(x, y, d) ==
  IF x.index[d] = y.index[d] THEN x.index[d]
  ELSE SortedSeq(SeqRange(x.index[d]) \cup SeqRange(y.index[d]))

\* the second result of xr.broadcast(x, y), for Alignable(x, y): y aligned
\* with x by an outer join of the labels (missing labels filled with NaN),
\* then expanded to the union of the dimensions, those of x first
Broadcast(x, y) ==
  LET both == {d \in DimSet(x) \cap DimSet(y) :
                 d \in DOMAIN x.index /\ d \in DOMAIN y.index}
      newdims == x.dims \o SelectSeq(y.dims, LAMBDA d : d \notin DimSet(x))
      newindex == [d \in (DOMAIN x.index) \cup (DOMAIN y.index) |->
                     IF d \in both THEN OuterIndex(x, y, d)
                     ELSE IF d \in DOMAIN x.index THEN x.index[d] ELSE y.index[d]]
      newsizes == [d \in SeqRange(newdims) |->
                     IF d \in both THEN Len(newindex[d])
                     ELSE IF d \in DimSet(x) THEN x.sizes[d] ELSE y.sizes[d]]
      Has(p, d) == d \notin both \/ newindex[d][p[d]] \in SeqRange(y.index[d])
      Src(p, d) == IF d \in both THEN IndexOf(newindex[d][p[d]], y.index[d])
                   ELSE p[d]
  IN [isNone |-> FALSE,
      dims |-> newdims,
      sizes |-> newsizes,
      index |-> newindex,
      val |-> [p \in PositionsOf(SeqRange(newdims), newsizes) |->
                 IF \A d \in DimSet(y) : Has(p, d)
                 THEN y.val[[d \in DimSet(y) |-> Src(p, d)]]
                 ELSE NaN]]

\* whether apply_ufunc can align two of its arguments (join="exact"): a
\* shared labeled dimension must carry equal labels, a shared dimension
\* without labels the same size
ExactAligned(x, y) ==
  \A d \in DimSet(x) \cap DimSet(y) :
    IF d \in DOMAIN x.index /\ d \in DOMAIN y.index
    THEN x.index[d] = y.index[d]
    ELSE x.sizes[d] = y.sizes[d]

\* whether xr.apply_ufunc(f, x, y, w, input_core_dims=[core, core, core])
\* reaches f: every argument has the core dimensions and the arguments align
UfuncOk(x, y, w, core) ==
  /\ IsDistinct(core)
  /\ SeqRange(core) \subseteq DimSet(x) \cap DimSet(y) \cap DimSet(w)
  /\ ExactAligned(x, y) /\ ExactAligned(x, w) /\ ExactAligned(y, w)

\* the dimensions apply_ufunc loops over: the non-core dimensions of the
\* arguments in order of first appearance
LoopDims(x, y, w, core) ==
  LET C == SeqRange(core)
      dx == SelectSeq(x.dims, LAMBDA d : d \notin C)
      dy == SelectSeq(y.dims, LAMBDA d : d \notin C /\ d \notin DimSet(x))
      dw == SelectSeq(w.dims, LAMBDA d : d \notin C /\ d \notin DimSet(x)
                                         /\ d \notin DimSet(y))
  IN dx \o dy \o dw

\* xr.apply_ufunc for UfuncOk arguments.  Every argument is broadcast to
\* the loop dimensions followed by the core dimensions in the order of
\* core (layout); fed is what the reducer receives: for every position of
\* the loop dimensions, the block of (x, y, w) elements indexed by the
\* positions along the core axes.  The result has the loop dimensions.
ApplyUfunc(x, y, w, core) ==
  LET loop == LoopDims(x, y, w, core)
      SizeOf(d) == IF d \in DimSet(x) THEN x.sizes[d]
                   ELSE IF d \in DimSet(y) THEN y.sizes[d] ELSE w.sizes[d]
      loopsizes == [d \in SeqRange(loop) |-> SizeOf(d)]
      n == Len(core)
      CorePos == {c \in [1..n -> 1..MaxOf({SizeOf(core[i]) : i \in 1..n})] :
                    \A i \in 1..n : c[i] <= SizeOf(core[i])}
      At(r, o, c) == r.val[[d \in DimSet(r) |->
                             IF d \in SeqRange(core) THEN c[IndexOf(d, core)]
                             ELSE o[d]]]
  IN [dims |-> loop,
      sizes |-> loopsizes,
      layout |-> loop \o core,
      fed |-> [o \in PositionsOf(SeqRange(loop), loopsizes) |->
                 [c \in CorePos |-> <<At(x, o, c), At(y, o, c), At(w, o, c)>>]]]

\* ------------------------------------------------------- deterministic.py
\* _preprocess_dims with dim = list(dim) in place of the isinstance test:
\* a string is split into its characters
PreprocessDims_ListOfStr(dim) ==
  LET l == IF dim.isStr THEN [i \in 1..Len(dim.s) |-> <<dim.s[i]>>] ELSE dim.l
  IN [dim |-> l, axis |-> PyRange(-1, -Len(l) - 1, -1)]

\* _preprocess_dims with range(-1, -len(dim), -1): the last axis is lost
PreprocessDims_ShortRange(dim) ==
  LET l == IF dim.isStr THEN <<dim.s>> ELSE dim.l
  IN [dim |-> l, axis |-> PyRange(-1, -Len(l), -1)]

\* _preprocess_dims(dim): the list of names and the axis tuple
PreprocessDims(dim) ==
  LET l == IF dim.isStr THEN <<dim.s>> ELSE dim.l
  IN [dim |-> l, axis |-> PyRange(-1, -Len(l) - 1, -1)]

\* weights / weights.max()
NormalizeWeights(weights) ==
  LET m == IntMax(Values(weights))
  IN [weights EXCEPT !.val = [p \in Positions(weights) |-> Quot(weights.val[p], m)]]

\* weights.min() < 0
HasNegative(nw) == FloatLess(FloatMin(Values(nw)), Num(0))

\* drop_dims = [i for i in a.dims if i not in new_dim]
DropDims(a, new_dim) == {i \in DimSet(a) : ~PyIn(i, new_dim)}

\* dict(weights.sizes) != dict(a.isel(drop_dims).sizes)
SizeMismatch(a, new_dim, nw) == nw.sizes # IselSizes(a, DropDims(a, new_dim))

\* _preprocess_weights with the size check moved before the minimum check
PreprocessWeights_SizeCheckFirst(a, dim, new_dim, weights) ==
  IF weights.isNone
  THEN [err |-> "none", weights |-> OnesLike(a), trace |-> <<"ones_like">>]
  ELSE LET nw == NormalizeWeights(weights)
       IN IF SizeMismatch(a, new_dim, nw)
          THEN [err |-> "dim_mismatch", weights |-> NoneArr,
                trace |-> <<"normalize", "size_check">>]
          ELSE IF HasNegative(nw)
          THEN [err |-> "negative", weights |-> NoneArr,
                trace |-> <<"normalize", "size_check", "min_check">>]
          ELSE IF nw.sizes # a.sizes
          THEN IF Alignable(a, nw)
               THEN [err |-> "none", weights |-> Broadcast(a, nw),
                     trace |-> <<"normalize", "size_check", "min_check", "broadcast">>]
               ELSE [err |-> "engine", weights |-> NoneArr,
                     trace |-> <<"normalize", "size_check", "min_check", "broadcast">>]
          ELSE [err |-> "none", weights |-> nw,
                trace |-> <<"normalize", "size_check", "min_check">>]

\* _preprocess_weights(a, dim, new_dim, weights).  err is the error raised
\* ("none" when it returns), weights the array returned, trace the steps
\* executed in order.  "engine" is an error raised inside the array engine.
PreprocessWeights(a, dim, new_dim, weights) ==
  IF weights.isNone
  THEN [err |-> "none", weights |-> OnesLike(a), trace |-> <<"ones_like">>]
  ELSE LET nw == NormalizeWeights(weights)
       IN IF HasNegative(nw)
          THEN [err |-> "negative", weights |-> NoneArr,
                trace |-> <<"normalize", "min_check">>]
          ELSE IF SizeMismatch(a, new_dim, nw)
          THEN [err |-> "dim_mismatch", weights |-> NoneArr,
                trace |-> <<"normalize", "min_check", "size_check">>]
          ELSE IF nw.sizes # a.sizes
          THEN IF Alignable(a, nw)
               THEN [err |-> "none", weights |-> Broadcast(a, nw),
                     trace |-> <<"normalize", "min_check", "size_check", "broadcast">>]
               ELSE [err |-> "engine", weights |-> NoneArr,
                     trace |-> <<"normalize", "min_check", "size_check", "broadcast">>]
          ELSE [err |-> "none", weights |-> nw,
                trace |-> <<"normalize", "min_check", "size_check">>]

NoOut == [dims |-> <<>>, sizes |-> <<>>, layout |-> <<>>, fed |-> <<>>]

\* the outcome of a call before any function has run
NoRes ==
  [err |-> "none", returned |-> FALSE, trace |-> <<>>, dimlist |-> <<>>,
   pd_axis |-> <<>>, axis |-> <<>>, new_dim |-> PyList(<<>>), core |-> <<>>, a2 |-> NoneArr, b2 |-> NoneArr,
   w_in |-> NoneArr, w |-> NoneArr, out |-> NoOut]

\* the tail shared by the metric functions: _preprocess_weights, then
\* xr.apply_ufunc over the core dimensions with kwargs={'axis': axis}.
\* In the outcome, returned says that _preprocess_weights returned, w is
\* what it returned, a2, b2 and w_in are the arrays as the preprocessor and
\* apply_ufunc were given them, and out is what apply_ufunc did.
Reduce(a2, b2, w2, pd, axis, new_dim, core) ==
  LET pw == PreprocessWeights(a2, pd.dim, new_dim, w2)
      base == [NoRes EXCEPT !.trace = pw.trace, !.dimlist = pd.dim,
                            !.pd_axis = pd.axis, !.axis = axis,
                            !.new_dim = new_dim, !.core = core, !.a2 = a2,
                            !.b2 = b2, !.w_in = w2]
  IN IF pw.err # "none" THEN [base EXCEPT !.err = pw.err]
     ELSE IF ~UfuncOk(a2, b2, pw.weights, core)
     THEN [base EXCEPT !.err = "engine", !.returned = TRUE, !.w = pw.weights]
     ELSE [base EXCEPT !.returned = TRUE, !.w = pw.weights,
                       !.out = ApplyUfunc(a2, b2, pw.weights, core)]

Reverse(l) == [i \in 1..Len(l) |-> l[Len(l) + 1 - i]]

\* the weights stacked over the names of dim in reverse order
StackWeights_Reversed(w, new_dim, dimlist) ==
  IF w.isNone THEN w ELSE Stack(w, new_dim, Reverse(dimlist))

\* if weights is not None: weights = weights.stack(**{new_dim: dim})
StackWeights(w, new_dim, dimlist) ==
  IF w.isNone THEN w ELSE Stack(w, new_dim, dimlist)

StackInputsOk(x, new_dim, dimlist) == x.isNone \/ StackOk(x, new_dim, dimlist)

\* the body shared by pearson_r and pearson_r_p_value
Correlation(a, b, dim, weights) ==
  LET pd == PreprocessDims(dim)
  IN IF Len(pd.dim) > 1
     THEN LET new_dim == JoinUnderscore(pd.dim)
          IN IF ~(StackInputsOk(a, new_dim, pd.dim)
                   /\ StackInputsOk(b, new_dim, pd.dim)
                   /\ StackInputsOk(weights, new_dim, pd.dim))
             THEN [NoRes EXCEPT !.err = "engine", !.dimlist = pd.dim,
                                !.pd_axis = pd.axis, !.new_dim = PyStr(new_dim)]
             ELSE Reduce(Stack(a, new_dim, pd.dim),
                         Stack(b, new_dim, pd.dim),
                         StackWeights(weights, new_dim, pd.dim),
                         pd, <<-1>>, PyStr(new_dim), <<new_dim>>)
     ELSE Reduce(a, b, weights, pd, <<-1>>, PyStr(pd.dim[1]), <<pd.dim[1]>>)

\* the body shared by rmse, mse and mae
ErrorMetric(a, b, dim, weights) ==
  LET pd == PreprocessDims(dim)
  IN Reduce(a, b, weights, pd, pd.axis, PyList(pd.dim), pd.dim)

\* ------------------------------------------------------------------ inputs
\* the sequences of pairwise distinct names of D, one or more
DistinctSeqs(D) ==
  UNION {{l \in [1..n -> D] : IsDistinct(l)} : n \in 1..Cardinality(D)}

\* the names of D in the order of NameOrder
Ordered(D) == SelectSeq(NameOrder, LAMBDA d : d \in D)

\* an input array named tag: every element is the token <<tag, position>>
InputArray(tag, D, sz) ==
  [isNone |-> FALSE, dims |-> Ordered(D), sizes |-> sz, index |-> <<>>,
   val |-> [p \in PositionsOf(D, sz) |-> <<tag, p>>]]

\* the number of elements of an array of dimensions D and sizes sz
Elems(D, sz) == Prod([i \in 1..Cardinality(D) |-> sz[Ordered(D)[i]]])

Shapes(D) == {sz \in [D -> 1..MaxSize] : Elems(D, sz) <= MaxElems}

InputArrays(tag) ==
  UNION {{InputArray(tag, D, sz) : sz \in Shapes(D)} : D \in (SUBSET Names) \ {{}}}

\* a supplied weights array: the entry at the first position is v[1], every
\* other entry is v[2]: all ones (<<1, 1>>), unequal positive weights
\* (<<2, 1>>), a zero or a negative entry among positive ones (<<0, 1>>,
\* <<-1, 1>>), all entries negative (<<-1, -1>>, <<-2, -1>>), a zero maximum
\* (<<0, -1>>), and an array of one zero entry
WeightArray(D, sz, v) ==
  [isNone |-> FALSE, dims |-> Ordered(D), sizes |-> sz, index |-> <<>>,
   val |-> [p \in PositionsOf(D, sz) |->
              IF \A d \in D : p[d] = 1 THEN v[1] ELSE v[2]]]

WeightArrays ==
  UNION {{WeightArray(D, sz, v) : sz \in Shapes(D),
                                  v \in (-MaxW..MaxW) \X {-1, 1}} :
           D \in (SUBSET Names) \ {{}}}

\* dim: one name of a, or a list of distinct names of a
DimRequests(arr) ==
  {PyStr(d) : d \in DimSet(arr)} \cup {PyList(l) : l \in DistinctSeqs(DimSet(arr))}

\* ------------------------------------------------------------------- state
VARIABLES a, b, dim, weights, pc, metric, res

vars == <<a, b, dim, weights, pc, metric, res>>

Init ==
  /\ a \in InputArrays("a")
  /\ b = InputArray("b", DimSet(a), a.sizes)
  /\ dim \in DimRequests(a)
  /\ weights \in {NoneArr} \cup WeightArrays
  /\ pc = "ready"
  /\ metric = "none"
  /\ res = NoRes

Call(name, r) ==
  /\ pc = "ready"
  /\ pc' = "done"
  /\ metric' = name
  /\ res' = r
  /\ UNCHANGED <<a, b, dim, weights>>

pearson_r == Call("pearson_r", Correlation(a, b, dim, weights))

pearson_r_p_value == Call("pearson_r_p_value", Correlation(a, b, dim, weights))

rmse == Call("rmse", ErrorMetric(a, b, dim, weights))

mse == Call("mse", ErrorMetric(a, b, dim, weights))

mae == Call("mae", ErrorMetric(a, b, dim, weights))

Next == pearson_r \/ pearson_r_p_value \/ rmse \/ mse \/ mae

Spec == Init /\ [][Next]_vars

\* --------------------------------------------------------------- the claims
Correlations == {"pearson_r", "pearson_r_p_value"}
ErrorMetrics == {"rmse", "mse", "mae"}

\* a call has ended with weights supplied
Supplied == pc = "done" /\ ~weights.isNone

\* the call ended in an error of the array engine itself (a stack over a
\* dimension the weights lack, labels that do not align)
EngineError == res.err = "engine"

SomeNegative(w) == \E p \in Positions(w) : w.val[p] < 0
AllNegative(w) == \A p \in Positions(w) : w.val[p] < 0
NoneNegative(w) == \A p \in Positions(w) : w.val[p] >= 0

\* C1: in every call the array engine accepts, of any of the five metric
\* functions, supplied weights with at least one negative entry (all entries
\* negative included) end the call in the negative-weight error
C1_NegativeEntryRaises ==
  (Supplied /\ ~EngineError /\ SomeNegative(weights)) => res.err = "negative"

\* C1, where the code does what the claim says: weights with a negative
\* entry whose maximum is not negative are rejected
C1_MixedSignsRaise ==
  (Supplied /\ ~EngineError /\ SomeNegative(weights)
     /\ IntMax(Values(weights)) >= 0) => res.err = "negative"

\* the names the caller asked to reduce over, in the caller's order
Requested == IF dim.isStr THEN <<dim.s>> ELSE dim.l

\* the weights have every dimension named in dim
CoversDim(w) == SeqRange(Requested) \subseteq DimSet(w)

\* C2: in every call of any of the five metric functions with supplied
\* weights that have the dimensions named in dim and no negative entry
\* (the negative-weight check runs first), if the size of at least one
\* dimension named in dim differs between weights and a, the call ends in
\* the dimension-mismatch error, with or without stacking
C2_SizeMismatchRaises ==
  (Supplied /\ NoneNegative(weights) /\ CoversDim(weights)
     /\ \E d \in SeqRange(Requested) : weights.sizes[d] # a.sizes[d])
  => res.err = "dim_mismatch"

\* C2, where the code does what the claim says: without stacking (rmse,
\* mse, mae, and the correlations over one dimension) the mismatch is raised
C2_UnstackedMismatchRaises ==
  (Supplied /\ NoneNegative(weights) /\ CoversDim(weights)
     /\ (metric \in ErrorMetrics \/ Len(Requested) = 1)
     /\ \E d \in SeqRange(Requested) : weights.sizes[d] # a.sizes[d])
  => res.err = "dim_mismatch"

\* the weights have exactly the reduction dimensions, with the sizes of a
MatchesReduction(w) ==
  /\ DimSet(w) = SeqRange(Requested)
  /\ \A d \in DimSet(w) : w.sizes[d] = a.sizes[d]

\* C3: for every input a, every metric function and every weights array
\* without negative entries whose dimensions are exactly the reduction
\* dimensions with the sizes they have in a, no dimension-mismatch error
\* is raised, for new_dim a list and for new_dim a single or joined name
C3_MatchingWeightsAccepted ==
  (Supplied /\ NoneNegative(weights) /\ MatchesReduction(weights))
  => res.err # "dim_mismatch"

\* C3, where the code does what the claim says: new_dim a list of names
C3_ListNewDimAccepted ==
  (Supplied /\ NoneNegative(weights) /\ MatchesReduction(weights)
     /\ metric \in ErrorMetrics)
  => res.err # "dim_mismatch"

\* a float in the interval [0, 1]
InUnit(v) == v.k = "num" /\ 0 <= v.n /\ v.n <= v.d

\* C4: whenever the weight preprocessor is given a weights array (here one
\* whose maximum is not zero, so that the division is defined, and whose
\* labels align with those of a) and returns without raising, every value
\* of the weights it returns lies in [0, 1], whatever the signs of the
\* entries supplied
C4_ReturnedWeightsInUnit ==
  (Supplied /\ res.returned /\ IntMax(Values(weights)) # 0
     /\ ExactAligned(res.a2, res.w_in))
  => \A p \in Positions(res.w) : InUnit(res.w.val[p])

\* C4, where the code does what the claim says: weights with a positive
\* maximum whose labels align with those of a
C4_PositiveMaxInUnit ==
  (Supplied /\ res.returned /\ IntMax(Values(weights)) > 0
     /\ ExactAligned(res.a2, res.w_in))
  => \A p \in Positions(res.w) : InUnit(res.w.val[p])


AllOnes(w) == \A p \in Positions(w) : w.val[p] = 1

\* the outcome of the same call with weights=None
WithNone ==
  IF metric \in Correlations THEN Correlation(a, b, dim, NoneArr)
  ELSE ErrorMetric(a, b, dim, NoneArr)

\* C5: for every metric function, a call with an all-ones weights array
\* over the reduction dimensions of a (with their sizes in a) has the
\* outcome of the call with weights=None: neither raises, and the reducer
\* is handed the same array of ones with the dimensions and sizes of a
C5_UniformWeightEquivalence ==
  (Supplied /\ AllOnes(weights) /\ MatchesReduction(weights))
  => /\ res.err = "none"
     /\ WithNone.err = "none"
     /\ res.w = WithNone.w
     /\ res.w = OnesLike(res.a2)
     /\ res.out = WithNone.out

\* C5, where the code does what the claim says: rmse, mse and mae
C5_ErrorMetricEquivalence ==
  (Supplied /\ AllOnes(weights) /\ MatchesReduction(weights)
     /\ metric \in ErrorMetrics)
  => /\ res.err = "none"
     /\ WithNone.err = "none"
     /\ res.w = WithNone.w
     /\ res.w = OnesLike(res.a2)
     /\ res.out = WithNone.out

\* C6: a successful call of any of the five metric functions returns a
\* result whose dimensions are exactly those of a minus the dimensions
\* named in dim: each reduction dimension is gone, every other dimension
\* is there once with its size in a, and no joined dimension remains
C6_ReductionDimsRemoved ==
  (pc = "done" /\ res.err = "none")
  => /\ SeqRange(res.out.dims) = DimSet(a) \ SeqRange(Requested)
     /\ IsDistinct(res.out.dims)
     /\ \A d \in SeqRange(res.out.dims) : res.out.sizes[d] = a.sizes[d]
     /\ Len(Requested) > 1 => JoinUnderscore(Requested) \notin SeqRange(res.out.dims)

\* C6's case: pearson_r over a list of two names with weights supplied
\* returns a result that keeps a third dimension
C6_Witness ==
  /\ pc = "done" /\ metric = "pearson_r" /\ res.err = "none"
  /\ ~weights.isNone /\ ~dim.isStr /\ Len(dim.l) = 2
  /\ Len(res.out.dims) = 1

\* C7: the dimension normalizer turns a string s into ([s], (-1,)) and a
\* list of n names into the same list with the axis tuple (-1, ..., -n);
\* in rmse, mse and mae the arrays reach the reducer with the reduction
\* dimensions on the n trailing axes in the order of dim, so the axis
\* tuple addresses those axes and no other, axis -1 being the last name
C7_DimsAndAxes ==
  pc = "done"
  => LET n == Len(Requested)
         lay == res.out.layout
         AxisDim(ax) == lay[Len(lay) + 1 + ax]
     IN /\ res.dimlist = Requested
        /\ res.pd_axis = [i \in 1..n |-> -i]
        /\ (metric \in ErrorMetrics /\ res.err = "none")
           => /\ res.axis = res.pd_axis
              /\ \A i \in 1..n : Len(lay) + 1 + res.axis[i] \in 1..Len(lay)
              /\ {AxisDim(res.axis[i]) : i \in 1..n} = SeqRange(Requested)
              /\ \A i \in 1..n : AxisDim(res.axis[i]) = Requested[n + 1 - i]
              /\ \A j \in 1..(Len(lay) - n) : lay[j] \notin SeqRange(Requested)

\* C7's case: rmse over a list of two names of an array with a third
\* dimension reaches the reducer
C7_Witness ==
  /\ pc = "done" /\ metric = "rmse" /\ res.err = "none"
  /\ ~dim.isStr /\ Len(dim.l) = 2
  /\ Len(res.out.layout) = 3


\* the reduction dimensions of the array the preprocessor was given
ReductionDims == SeqRange(res.core)

C8_ErrorMetricBroadcast ==
  (Supplied /\ res.returned /\ metric \in ErrorMetrics)
  => LET nw == NormalizeWeights(res.w_in)
     IN /\ DimSet(res.w) = DimSet(res.a2)
        /\ res.w.sizes = res.a2.sizes
        /\ \A p \in Positions(res.w) : \A q \in Positions(nw) :
             (\A d \in ReductionDims \cap DimSet(nw) : q[d] = p[d])
             => res.w.val[p] = nw.val[q]

\* C9: in pearson_r and pearson_r_p_value the reducer receives, along the
\* one core axis named by joining the names of dim with underscores (the
\* name itself for one dimension, where nothing is stacked), one (a, b,
\* weight) triple per combination of positions along the dimensions of dim:
\* the elements of a and of b and the normalized weight of one and the same
\* original position, which lies at the loop position along the other
\* dimensions; the triples follow each other in Cartesian order (the
\* lexicographic order of their positions along the dimensions of dim)
C9_StackedEqualsFlattened ==
  (pc = "done" /\ metric \in Correlations /\ res.err = "none")
  => LET n == Len(Requested)
         lay == res.out.layout
         fed == res.out.fed
         count == Prod([i \in 1..n |-> a.sizes[Requested[i]]])
         Coords(P) == [i \in 1..n |-> P[Requested[i]]]
         WPos(P) == [d \in DimSet(weights) |-> P[d]]
         WAt(P) == IF weights.isNone THEN Num(1)
                   ELSE Quot(weights.val[WPos(P)], IntMax(Values(weights)))
     IN /\ res.core = <<JoinUnderscore(Requested)>>
        /\ lay[Len(lay)] = JoinUnderscore(Requested)
        /\ n = 1 => (res.a2 = a /\ res.b2 = b /\ res.w_in = weights)
        /\ DOMAIN fed = PositionsOf(DimSet(a) \ SeqRange(Requested), a.sizes)
        /\ \A o \in DOMAIN fed :
             /\ DOMAIN fed[o] = {<<k>> : k \in 1..count}
             /\ \A k \in 1..count :
                  LET t == fed[o][<<k>>]
                      P == t[1][2]
                  IN /\ t[1] = <<"a", P>>
                     /\ t[2] = <<"b", P>>
                     /\ P \in Positions(a)
                     /\ \A d \in DOMAIN o : P[d] = o[d]
                     /\ DimSet(weights) \subseteq DimSet(a)
                     /\ weights.isNone \/ WPos(P) \in Positions(weights)
                     /\ t[3] = WAt(P)
             /\ \A k \in 1..(count - 1) :
                  LexLess(Coords(fed[o][<<k>>][1][2]), Coords(fed[o][<<k + 1>>][1][2]))

\* C9's case: a correlation over a list of two dimensions of size 2 each,
\* given in the order opposite to that of a, with unequal weights
C9_Witness ==
  /\ pc = "done" /\ metric = "pearson_r_p_value" /\ res.err = "none"
  /\ ~dim.isStr /\ Len(dim.l) = 2 /\ dim.l # a.dims
  /\ \A d \in SeqRange(dim.l) : a.sizes[d] = 2
  /\ ~weights.isNone /\ Cardinality(Values(res.w)) = 2

\* the minimum of the normalized weights is below zero: an entry is
\* negative and the maximum is not
NormMinBelowZero(w) == SomeNegative(w) /\ IntMax(Values(w)) >= 0

\* C10: the weight preprocessor normalizes, then checks the minimum, then
\* checks the sizes, then broadcasts.  Weights whose normalized minimum is
\* below zero and whose sizes also mismatch end in the negative-weight
\* error, never in the dimension-mismatch error; the dimension-mismatch
\* error is raised only for weights whose normalized minimum is not below
\* zero; and a call of the preprocessor that does not return ends in one
\* of the two validation errors and has broadcast nothing
C10_ValidationOrder ==
  (Supplied /\ res.trace # <<>>)
  => LET order == <<"normalize", "min_check", "size_check", "broadcast">>
         mismatch == SizeMismatch(res.a2, res.new_dim, NormalizeWeights(res.w_in))
     IN /\ res.trace = SubSeq(order, 1, Len(res.trace))
        /\ (NormMinBelowZero(res.w_in) /\ mismatch) => res.err = "negative"
        /\ res.err = "dim_mismatch" => (mismatch /\ ~NormMinBelowZero(res.w_in))
        /\ ~res.returned
           => /\ res.err \in {"negative", "dim_mismatch"}
              /\ res.w.isNone
              /\ "broadcast" \notin SeqRange(res.trace)

\* C10's case: weights with a negative normalized minimum and mismatching
\* sizes were rejected
C10_Witness ==
  /\ Supplied /\ res.err = "negative"
  /\ NormMinBelowZero(res.w_in)
  /\ SizeMismatch(res.a2, res.new_dim, NormalizeWeights(res.w_in))

====
